---- MODULE Spec2Model ----
(***************************************************************************)
(* AutoReact (src/autoreact/autoreact.py): the per-guild admission queue,  *)
(* the worker task that drains it, _process_message with its retry loop,   *)
(* _handle_forbidden with its cooldown and auto-disable, and cog_unload.   *)
(*                                                                         *)
(* One action is one run of a coroutine from one suspension point (an      *)
(* await that can yield to the event loop) to the next: asyncio runs one   *)
(* task at a time, so everything between two awaits is atomic.             *)
(***************************************************************************)
EXTENDS Integers, Sequences, FiniteSets, TLC

VARIABLES
    config,               \* the settings store: guild -> settings
    _queues,              \* self._queues: guild -> queue id, NoQueue when absent
    _workers,             \* self._workers: guild -> task id, NoTask when absent
    _dropped_count,       \* self._dropped_count: guild -> int
    _failure_count,       \* self._failure_count: guild -> int
    _forbidden_warned_at, \* self._forbidden_warned_at: <<guild, channel>> -> time, Unset when absent
    heap,                 \* the asyncio.Queue objects ever created: queue id -> [items, unfinished]
    tasks,                \* the worker tasks ever created: task id -> frame of _worker_loop
    inflight,             \* on_message calls suspended in `await self.config.guild(guild).all()`
    logging,              \* on_message calls suspended in `await self._maybe_log(...)` after a drop
    now,                  \* time.monotonic(), whole seconds
    arrivals,             \* number of on_message calls begun so far (the next message id - 1)
    unloaded,             \* cog_unload has run (it runs once in the life of the cog object)
    quota,                \* the run's budget: on_message calls, clock range (never changes)
    enqueued,             \* history: guild -> [id, emoji_raw at the put] put into a queue, in put order
    handed,               \* history: guild -> ids passed to _process_message, in call order
    droppedIds,           \* history: ids refused by put_nowait
    faulted,              \* history: ids whose processing raised an unexpected exception
    sent,                 \* history: guild -> notifications handed to channel.send, in order
    forbidden             \* history: guild -> the discord.Forbidden results handled, in order

vars == <<config, _queues, _workers, _dropped_count, _failure_count,
          _forbidden_warned_at, heap, tasks, inflight, logging, now, arrivals,
          unloaded, quota, enqueued, handed, droppedIds, faulted, sent, forbidden>>

----------------------------------------------------------------------------
(* Bounds of the model. *)

\* asyncio.Queue(maxsize=DEFAULT_QUEUE_MAXSIZE): 1000 in the source (line 25),
\* scaled down so that a full queue is reached.
DEFAULT_QUEUE_MAXSIZE == 2

\* on_message calls over a run of Spec.
MaxArrivals == 3

\* on_message calls over a run of SpecFifo.
FifoArrivals == 3

\* on_message calls over a run of SpecRetry.
RetryArrivals == 2

\* on_message calls over a run of SpecSettings.
SettingsArrivals == 2

\* on_message calls over a run of SpecForbidden.
ForbiddenArrivals == 2

\* on_message calls over a run of SpecGuilds.
GuildsArrivals == 3

\* on_message calls over a run of SpecCounts.
CountsArrivals == 2

\* on_message calls over a run of SpecDisable.
DisableArrivals == 3

\* on_message calls over a run of SpecLive.
LiveArrivals == 2

\* Seconds the clock advances over a run of SpecForbidden.
MaxElapsed == 62

----------------------------------------------------------------------------
(* Program constants. *)

\* `if now - last_warn >= 60.0`
FORBIDDEN_COOLDOWN == 60

\* `_forbidden_warned_at.get(warn_key, 0.0)`
WARN_DEFAULT == 0

\* `min(2000, max(100, delay_ms))`
DELAY_MIN_MS == 100

DELAY_MAX_MS == 2000

\* `await asyncio.sleep(1.0)` in _worker_loop, in milliseconds
CRASH_SLEEP_MS == 1000

\* `await asyncio.sleep(1.0 + (attempt * 2.0))`, in milliseconds
BACKOFF_BASE_MS == 1000

BACKOFF_STEP_MS == 2000

----------------------------------------------------------------------------
(* Values. *)

Guilds == {"g1", "g2"}

Channels == {"c1", "c2"}

\* Python's None, for a channel id, a raw emoji string, a guild.
None == "None"

NoQueue == 0

NoTask == 0

\* No entry under the key in _forbidden_warned_at.
Unset == -1

NoId == 0

Max(a, b) == IF a >= b THEN a ELSE b

Min(a, b) == IF a <= b THEN a ELSE b

----------------------------------------------------------------------------
(* Emoji: the strings the store can hold, discord.PartialEmoji.from_str,   *)
(* the bot's emoji cache, and the three runtime shapes (str,               *)
(* discord.Emoji, discord.PartialEmoji).                                   *)

\* Raw emoji strings: a unicode emoji, a static custom emoji the bot has cached,
\* an animated custom emoji it has not, and the empty string.
RawEmojis == {"tick", "<:yes:11>", "<a:wow:12>", ""}

StrEmoji(name) == [kind |-> "str", name |-> name, id |-> NoId, animated |-> FALSE]

PartialEmoji(name, animated, id) ==
    [kind |-> "PartialEmoji", name |-> name, id |-> id, animated |-> animated]

Emoji(name, animated, id) ==
    [kind |-> "Emoji", name |-> name, id |-> id, animated |-> animated]

NoEmoji == [kind |-> "None", name |-> "", id |-> NoId, animated |-> FALSE]

\* discord.PartialEmoji.from_str: "<a:name:id>" / "<:name:id>" give a custom
\* emoji, anything else a unicode one named by the whole string.
from_str(emoji_raw) ==
    CASE emoji_raw = "<:yes:11>"  -> PartialEmoji("yes", FALSE, 11)
      [] emoji_raw = "<a:wow:12>" -> PartialEmoji("wow", TRUE, 12)
      [] OTHER                    -> PartialEmoji(emoji_raw, FALSE, NoId)

\* self.bot.get_emoji(id): the cached discord.Emoji, or None.
get_emoji(id) ==
    IF id = 11 THEN Emoji("yes", FALSE, 11) ELSE NoEmoji

_to_runtime_emoji(emoji_raw) ==
    LET parsed == from_str(emoji_raw)
    IN  IF parsed.id # NoId
        THEN LET real_emoji == get_emoji(parsed.id)
             IN  IF real_emoji # NoEmoji THEN real_emoji ELSE parsed
        ELSE IF parsed.name # "" THEN StrEmoji(parsed.name) ELSE NoEmoji

_emoji_key(emoji) ==
    IF emoji.kind = "str" THEN <<"u", emoji.name>>
    ELSE IF emoji.kind = "Emoji"
    THEN <<"c", IF emoji.animated THEN "a" ELSE "s", emoji.id>>
    ELSE IF emoji.id # NoId
    THEN <<"c", IF emoji.animated THEN "a" ELSE "s", emoji.id>>
    ELSE <<"u", emoji.name>>

\* Faulty variant of _has_same_reaction: only the first reaction is compared.
_has_same_reaction_first(message, emoji) ==
    /\ Len(message.reactions) > 0
    /\ _emoji_key(message.reactions[1]) = _emoji_key(emoji)

_has_same_reaction(message, emoji) ==
    LET target == _emoji_key(emoji)
    IN  \E i \in 1..Len(message.reactions) :
            _emoji_key(message.reactions[i]) = target

----------------------------------------------------------------------------
(* Settings. *)

\* register_guild(...): the defaults of the store.
DefaultSettings ==
    [enabled |-> FALSE, channel_id |-> None, emoji_raw |-> None,
     ignore_bots |-> FALSE, ignore_webhooks |-> FALSE,
     per_item_delay_ms |-> 350, max_retry |-> 1,
     auto_disable_on_forbidden |-> FALSE, logging_enabled |-> FALSE,
     log_channel_id |-> None]

\* Log channel ids: "log" resolves to a text channel, "gone" does not.
LogChannels == {"log", "gone"}

\* guild.get_channel(log_channel_id) is a discord.TextChannel.
get_channel_ok(log_channel_id) == log_channel_id = "log"

\* Faulty variant of _sleep_delay: the delay is taken as it is configured.
_sleep_delay_unclamped(settings) == settings.per_item_delay_ms

\* _sleep_delay: the pacing sleep, in milliseconds.
_sleep_delay(settings) ==
    Min(DELAY_MAX_MS, Max(DELAY_MIN_MS, settings.per_item_delay_ms))

----------------------------------------------------------------------------
(* Messages. *)

Message(id, guild, channel, bot, webhook, reactions) ==
    [id |-> id, guild |-> guild, channel |-> channel, bot |-> bot,
     webhook |-> webhook, reactions |-> reactions]

NoMessage == Message(NoId, None, None, FALSE, FALSE, <<>>)

\* The shapes of message the event source delivers.
MessageShapes ==
    {"plain", "reacted", "custom", "bot", "webhook", "elsewhere", "dm"}

Shaped(id, guild, shape) ==
    CASE shape = "plain"     -> Message(id, guild, "c1", FALSE, FALSE, <<>>)
      [] shape = "reacted"   -> Message(id, guild, "c1", FALSE, FALSE,
                                   <<StrEmoji("other"), PartialEmoji("tick", FALSE, NoId)>>)
      [] shape = "custom"    -> Message(id, guild, "c1", FALSE, FALSE,
                                   <<PartialEmoji("renamed", FALSE, 11)>>)
      [] shape = "bot"       -> Message(id, guild, "c1", TRUE, FALSE, <<>>)
      [] shape = "webhook"   -> Message(id, guild, "c1", TRUE, TRUE, <<>>)
      [] shape = "elsewhere" -> Message(id, guild, "c2", FALSE, FALSE, <<>>)
      [] OTHER               -> Message(id, None, "c1", FALSE, FALSE, <<>>)

----------------------------------------------------------------------------
(* Queues and worker tasks. *)

\* asyncio.Queue(maxsize=...): its deque and its count of unfinished tasks.
NewQueue == [items |-> <<>>, unfinished |-> 0]

\* Places where _worker_loop can be suspended.
\*   get          await queue.get()
\*   settings     await self.config.guild(guild).all()   (in _process_message)
\*   add_reaction await message.add_reaction(emoji)
\*   backoff      await asyncio.sleep(1.0 + attempt * 2.0)
\*   warn_log     await self._maybe_log(...)              (missing permissions)
\*   disable_set  await self.config.guild(guild).enabled.set(False)
\*   disable_log  await self._maybe_log(...)              (auto-disabled)
\*   pacing       await self._sleep_delay(settings)
\*   crash_sleep  await asyncio.sleep(1.0)                (after log.exception)
\*   done         the task has finished
ProcessingPcs ==
    {"settings", "add_reaction", "backoff", "warn_log", "disable_set",
     "disable_log", "pacing"}

\* Awaits on a collaborator (store, Discord API), which can raise anything.
ExternalCallPcs ==
    {"settings", "add_reaction", "warn_log", "disable_set", "disable_log"}

\* The locals of _process_message, and what the current item has caused so far
\* (calls: add_reaction invocations; fails: increments of _failure_count;
\* handled: _handle_forbidden invocations; writes: enabled.set(False) calls;
\* result: how the retry loop ended).
IdleLocals ==
    [msg |-> NoMessage, settings |-> DefaultSettings, emoji |-> NoEmoji,
     max_retry |-> 0, attempt |-> 0, sleep_ms |-> 0,
     calls |-> 0, fails |-> 0, handled |-> 0, writes |-> 0, result |-> "none"]

\* asyncio.create_task(self._worker_loop(guild_id, queue))
NewTask(guild_id, queue) ==
    [guild |-> guild_id, queue |-> queue, pc |-> "get", cancel |-> FALSE,
     f |-> IdleLocals]

TaskIds == 1..Len(tasks)

\* task.done()
done(ts, task) == ts[task].pc = "done"

\* Faulty variant of _ensure_worker: a task is created whether or not one is
\* running.
_ensure_worker_always(guild_id, ws, ts, qs) ==
    [workers |-> [ws EXCEPT ![guild_id] = Len(ts) + 1],
     tasks   |-> Append(ts, NewTask(guild_id, qs[guild_id]))]

\* _ensure_worker, on the given _workers, tasks and _queues: the new _workers
\* and tasks.
_ensure_worker(guild_id, ws, ts, qs) ==
    LET task == ws[guild_id]
    IN  IF task # NoTask /\ ~done(ts, task)
        THEN [workers |-> ws, tasks |-> ts]
        ELSE [workers |-> [ws EXCEPT ![guild_id] = Len(ts) + 1],
              tasks   |-> Append(ts, NewTask(guild_id, qs[guild_id]))]

\* Faulty variant of full: the comparison is off by one.
full_off_by_one(queue) == Len(queue.items) > DEFAULT_QUEUE_MAXSIZE

\* queue.full(): maxsize > 0 and qsize() >= maxsize
full(queue) == Len(queue.items) >= DEFAULT_QUEUE_MAXSIZE

\* Faulty variant of queue_get: the newest item is taken first.
queue_get_newest(items) ==
    [item |-> items[Len(items)], rest |-> SubSeq(items, 1, Len(items) - 1)]

\* queue.get() on a queue that holds something: the oldest item, and the rest.
queue_get(items) == [item |-> Head(items), rest |-> Tail(items)]

\* Faulty variant of task_done: the call is left out.
task_done_left_out(h, q) == h

\* Faulty variant of count_failure: one counter for all guilds.
count_failure_everywhere(counts, guild_id) ==
    [g \in Guilds |-> counts[g] + 1]

\* `self._failure_count[guild.id] += 1`
count_failure(counts, guild_id) == [counts EXCEPT ![guild_id] = @ + 1]

\* queue.task_done()
task_done(h, q) == [h EXCEPT ![q].unfinished = @ - 1]

\* _maybe_log: re-reads the settings and hands the text to channel.send when
\* logging is on and the log channel resolves; a discord.HTTPException from
\* send is swallowed.
_maybe_log(guild, kind, id) ==
    LET settings == config[guild]
    IN  IF ~settings.logging_enabled THEN sent
        ELSE IF settings.log_channel_id = None THEN sent
        ELSE IF ~get_channel_ok(settings.log_channel_id) THEN sent
        ELSE [sent EXCEPT ![guild] = Append(@, [kind |-> kind, id |-> id, at |-> now])]

----------------------------------------------------------------------------
(* The dispatcher: on_message. *)

\* on_message up to `await self.config.guild(guild).all()`; the listener is
\* removed with the cog, so no call begins after cog_unload.
on_message_begin(guild, shape) ==
    LET message == Shaped(arrivals + 1, guild, shape)
    IN  /\ ~unloaded
        /\ arrivals < quota.arrivals
        /\ arrivals' = arrivals + 1
        /\ inflight' = IF message.guild = None THEN inflight
                       ELSE inflight \cup {message}
        /\ UNCHANGED <<config, _queues, _workers, _dropped_count, _failure_count,
                       _forbidden_warned_at, heap, tasks, logging, now, unloaded,
                       quota, enqueued, handed, droppedIds, faulted, sent, forbidden>>

\* The filters of on_message (lines 67-82): TRUE when the message goes on.
qualifies(settings, message) ==
    /\ settings.enabled
    /\ settings.channel_id # None
    /\ settings.emoji_raw # None
    /\ message.channel = settings.channel_id
    /\ ~(settings.ignore_bots /\ message.bot)
    /\ ~(settings.ignore_webhooks /\ message.webhook)

\* on_message from the settings read to its return or to
\* `await self._maybe_log(...)`.
on_message(message) ==
    LET guild    == message.guild
        settings == config[guild]
        fresh    == _queues[guild] = NoQueue
        queue    == IF fresh THEN Len(heap) + 1 ELSE _queues[guild]
        heap1    == IF fresh THEN Append(heap, NewQueue) ELSE heap
        queues1  == [_queues EXCEPT ![guild] = queue]
        ensured  == _ensure_worker(guild, _workers, tasks, queues1)
    IN  /\ message \in inflight
        /\ inflight' = inflight \ {message}
        /\ UNCHANGED <<config, _failure_count, _forbidden_warned_at, now, arrivals,
                       unloaded, quota, handed, faulted, sent, forbidden>>
        /\ IF ~qualifies(settings, message)
           THEN UNCHANGED <<_queues, _workers, _dropped_count, heap, tasks, logging,
                            enqueued, droppedIds>>
           ELSE /\ _queues' = queues1
                /\ _workers' = ensured.workers
                /\ tasks' = ensured.tasks
                /\ IF full(heap1[queue])
                   THEN /\ heap' = heap1
                        /\ _dropped_count' = [_dropped_count EXCEPT ![guild] = @ + 1]
                        /\ droppedIds' = droppedIds \cup {message.id}
                        /\ logging' = IF settings.logging_enabled
                                      THEN logging \cup {message}
                                      ELSE logging
                        /\ UNCHANGED enqueued
                   ELSE /\ heap' = [heap1 EXCEPT ![queue].items = Append(@, message),
                                                 ![queue].unfinished = @ + 1]
                        /\ enqueued' = [enqueued EXCEPT ![guild] =
                               Append(@, [id |-> message.id,
                                          emoji_raw |-> settings.emoji_raw])]
                        /\ UNCHANGED <<_dropped_count, droppedIds, logging>>

\* on_message resumed from `await self._maybe_log(...)` after a drop.
on_message_logged(message) ==
    /\ message \in logging
    /\ logging' = logging \ {message}
    /\ sent' = _maybe_log(message.guild, "full", message.id)
    /\ UNCHANGED <<config, _queues, _workers, _dropped_count, _failure_count,
                   _forbidden_warned_at, heap, tasks, inflight, now, arrivals,
                   unloaded, quota, enqueued, handed, droppedIds, faulted, forbidden>>

\* cog_unload: no await in its body, so one step.
cog_unload ==
    /\ ~unloaded
    /\ unloaded' = TRUE
    /\ tasks' = [t \in TaskIds |->
                    IF (\E g \in Guilds : _workers[g] = t) /\ ~done(tasks, t)
                    THEN [tasks[t] EXCEPT !.cancel = TRUE]
                    ELSE tasks[t]]
    /\ _workers' = [g \in Guilds |-> NoTask]
    /\ _queues' = [g \in Guilds |-> NoQueue]
    /\ UNCHANGED <<config, _dropped_count, _failure_count, _forbidden_warned_at,
                   heap, inflight, logging, now, arrivals, quota, enqueued, handed,
                   droppedIds, faulted, sent, forbidden>>

----------------------------------------------------------------------------
(* The worker: _worker_loop, with _process_message and _handle_forbidden   *)
(* running inside it.                                                      *)

\* Faulty variant of Runs: a cancelled task goes on as if nothing had happened.
Runs_cancelled_too(t, pc) ==
    /\ t \in TaskIds
    /\ tasks[t].pc = pc

\* A task that can take its next step normally: when cancel() was called on it,
\* its next step is CancelledError raised at the await it is suspended in.
Runs(t, pc) ==
    /\ t \in TaskIds
    /\ tasks[t].pc = pc
    /\ ~tasks[t].cancel

\* The task moves to `pc` with locals `f`.
Goto(t, pc, f) == [tasks EXCEPT ![t].pc = pc, ![t].f = f]

\* _process_message returned: `finally: queue.task_done()`, and the loop is
\* back at `await queue.get()`.
Returned(t) ==
    /\ tasks' = Goto(t, "get", IdleLocals)
    /\ heap' = task_done(heap, tasks[t].queue)

\* `message = await queue.get()` returns and _process_message runs to
\* `await self.config.guild(guild).all()`.
worker_get(t) ==
    LET q == tasks[t].queue
    IN  /\ Runs(t, "get")
        /\ heap[q].items # <<>>
        /\ heap' = [heap EXCEPT ![q].items = queue_get(@).rest]
        /\ tasks' = Goto(t, "settings",
                         [IdleLocals EXCEPT !.msg = queue_get(heap[q].items).item])
        /\ handed' = [handed EXCEPT ![tasks[t].guild] =
                          Append(@, queue_get(heap[q].items).item.id)]
        /\ UNCHANGED <<config, _queues, _workers, _dropped_count, _failure_count,
                       _forbidden_warned_at, inflight, logging, now, arrivals,
                       unloaded, quota, enqueued, droppedIds, faulted, sent, forbidden>>

\* Faulty variant of discards: `enabled` is not looked at again.
discards_unless_enabled(settings, message) ==
    \/ settings.channel_id = None
    \/ settings.emoji_raw = None
    \/ message.channel # settings.channel_id

\* Faulty variant of discards: the channel is not compared again.
discards_unless_moved(settings, message) ==
    \/ ~settings.enabled
    \/ settings.channel_id = None
    \/ settings.emoji_raw = None

\* The discards of _process_message after the settings read (lines 129-138).
discards(settings, message) ==
    \/ ~settings.enabled
    \/ settings.channel_id = None
    \/ settings.emoji_raw = None
    \/ message.channel # settings.channel_id

\* _process_message from the settings read (line 128) to its return, to the
\* pacing sleep of an item that already has the reaction, or to the first
\* `await message.add_reaction(emoji)`.
process_settings(t) ==
    LET guild    == tasks[t].guild
        f        == tasks[t].f
        settings == config[guild]
        emoji    == _to_runtime_emoji(settings.emoji_raw)
    IN  /\ Runs(t, "settings")
        /\ UNCHANGED <<config, _queues, _workers, _dropped_count,
                       _forbidden_warned_at, inflight, logging, now, arrivals,
                       unloaded, quota, enqueued, handed, droppedIds, faulted, sent,
                       forbidden>>
        /\ IF discards(settings, f.msg)
           THEN Returned(t) /\ UNCHANGED _failure_count
           ELSE IF emoji = NoEmoji
           THEN /\ Returned(t)
                /\ _failure_count' = count_failure(_failure_count, guild)
           ELSE IF _has_same_reaction(f.msg, emoji)
           THEN /\ tasks' = Goto(t, "pacing",
                                 [f EXCEPT !.settings = settings, !.emoji = emoji,
                                           !.result = "skip",
                                           !.sleep_ms = _sleep_delay(settings)])
                /\ UNCHANGED <<heap, _failure_count>>
           ELSE /\ tasks' = Goto(t, "add_reaction",
                                 [f EXCEPT !.settings = settings, !.emoji = emoji,
                                           !.max_retry = Max(0, settings.max_retry),
                                           !.attempt = 0, !.calls = 1])
                /\ UNCHANGED <<heap, _failure_count>>

\* What `await message.add_reaction(emoji)` can give: success, discord.Forbidden,
\* discord.NotFound, or another discord.HTTPException with its status.
Outcomes == {"ok", "Forbidden", "NotFound", "HTTPException"}

Statuses == {400, 429, 500, 599}

\* `exc.status == 429 or 500 <= exc.status < 600`
transient(status) == status = 429 \/ (500 <= status /\ status < 600)

\* The pacing sleep after the retry loop (line 169).
Pace(f, result) ==
    [f EXCEPT !.result = result, !.sleep_ms = _sleep_delay(f.settings)]

\* Faulty variant of auto_disables: the auto-disable block sits inside the cooldown's
\* `if`.
auto_disables_when_due(settings, due) ==
    settings.auto_disable_on_forbidden /\ due

\* `if settings["auto_disable_on_forbidden"]` (line 189), after the cooldown's
\* `if` and outside it.
auto_disables(settings, due) == settings.auto_disable_on_forbidden

\* Faulty variant of AfterWarn: after the handler the loop goes round instead
\* of breaking.
AfterWarn_continue(t, f, due) ==
    IF auto_disables(f.settings, due)
    THEN Goto(t, "disable_set", f)
    ELSE Goto(t, "add_reaction", [f EXCEPT !.calls = @ + 1])

\* After the cooldown part of _handle_forbidden: the auto-disable part, or the
\* handler returns and the pacing sleep starts.
AfterWarn(t, f, due) ==
    IF auto_disables(f.settings, due)
    THEN Goto(t, "disable_set", f)
    ELSE Goto(t, "pacing", Pace(f, "forbidden"))

\* Faulty variant of cooldown_over: the warning waits for more than 61 seconds.
cooldown_over_late(t_now, last_warn) == t_now - last_warn > 61

\* `if now - last_warn >= 60.0`
cooldown_over(t_now, last_warn) == t_now - last_warn >= FORBIDDEN_COOLDOWN

\* `except discord.Forbidden` (lines 155-158) with _handle_forbidden up to its
\* first await.
on_forbidden(t) ==
    LET guild     == tasks[t].guild
        f0        == tasks[t].f
        f         == [f0 EXCEPT !.fails = @ + 1, !.handled = @ + 1]
        warn_key  == <<guild, f.msg.channel>>
        last_warn == IF _forbidden_warned_at[warn_key] = Unset THEN WARN_DEFAULT
                     ELSE _forbidden_warned_at[warn_key]
        due       == cooldown_over(now, last_warn)
    IN  /\ _failure_count' = count_failure(_failure_count, guild)
        /\ _forbidden_warned_at' =
               IF due THEN [_forbidden_warned_at EXCEPT ![warn_key] = now]
               ELSE _forbidden_warned_at
        /\ forbidden' = [forbidden EXCEPT ![guild] =
               Append(@, [id |-> f.msg.id, channel |-> f.msg.channel, at |-> now,
                          last |-> _forbidden_warned_at[warn_key], due |-> due])]
        /\ tasks' = IF due /\ f.settings.logging_enabled
                    THEN Goto(t, "warn_log", f)
                    ELSE AfterWarn(t, f, due)

\* Faulty variant of may_retry: one retry too many.
may_retry_once_more(attempt, max_retry) == attempt <= max_retry

\* `attempt < max_retry`
may_retry(attempt, max_retry) == attempt < max_retry

\* Faulty variant of on_not_found: the deleted message is counted as a failure.
on_not_found_counted(counts, guild_id) == count_failure(counts, guild_id)

\* `except discord.NotFound: break` (lines 159-160): the failed counter after it.
on_not_found(counts, guild_id) == counts

\* `except discord.HTTPException as exc` (lines 161-167).
on_http_exception(t, status) ==
    LET guild == tasks[t].guild
        f0    == tasks[t].f
        f     == [f0 EXCEPT !.fails = @ + 1]
    IN  /\ _failure_count' = count_failure(_failure_count, guild)
        /\ tasks' = IF may_retry(f.attempt, f.max_retry) /\ transient(status)
                    THEN Goto(t, "backoff",
                              [f EXCEPT !.attempt = @ + 1,
                                        !.sleep_ms = BACKOFF_BASE_MS
                                                     + (f.attempt + 1) * BACKOFF_STEP_MS])
                    ELSE Goto(t, "pacing",
                              Pace(f, IF transient(status) THEN "exhausted" ELSE "http"))
        /\ UNCHANGED <<_forbidden_warned_at, forbidden>>

\* `await message.add_reaction(emoji)` returns or raises a discord exception.
add_reaction_done(t, outcome, status) ==
    /\ Runs(t, "add_reaction")
    /\ UNCHANGED <<config, _queues, _workers, _dropped_count, heap, inflight,
                   logging, now, arrivals, unloaded, quota, enqueued, handed,
                   droppedIds, faulted, sent>>
    /\ CASE outcome = "ok" ->
               /\ tasks' = Goto(t, "pacing", Pace(tasks[t].f, "ok"))
               /\ UNCHANGED <<_failure_count, _forbidden_warned_at, forbidden>>
         [] outcome = "NotFound" ->
               /\ tasks' = Goto(t, "pacing", Pace(tasks[t].f, "notfound"))
               /\ _failure_count' = on_not_found(_failure_count, tasks[t].guild)
               /\ UNCHANGED <<_forbidden_warned_at, forbidden>>
         [] outcome = "Forbidden" -> on_forbidden(t)
         [] OTHER -> on_http_exception(t, status)

\* The backoff sleep ends and add_reaction is called again.
backoff_done(t) ==
    /\ Runs(t, "backoff")
    /\ tasks' = Goto(t, "add_reaction",
                     [tasks[t].f EXCEPT !.calls = @ + 1, !.sleep_ms = 0])
    /\ UNCHANGED <<config, _queues, _workers, _dropped_count, _failure_count,
                   _forbidden_warned_at, heap, inflight, logging, now, arrivals,
                   unloaded, quota, enqueued, handed, droppedIds, faulted, sent,
                   forbidden>>

\* _handle_forbidden resumed from the missing-permissions _maybe_log.
warn_log_done(t) ==
    /\ Runs(t, "warn_log")
    /\ sent' = _maybe_log(tasks[t].guild, "missing", tasks[t].f.msg.id)
    /\ tasks' = AfterWarn(t, tasks[t].f, TRUE)
    /\ UNCHANGED <<config, _queues, _workers, _dropped_count, _failure_count,
                   _forbidden_warned_at, heap, inflight, logging, now, arrivals,
                   unloaded, quota, enqueued, handed, droppedIds, faulted, forbidden>>

\* `await self.config.guild(guild).enabled.set(False)` (line 190).
disable_set_done(t) ==
    LET f == [tasks[t].f EXCEPT !.writes = @ + 1]
    IN  /\ Runs(t, "disable_set")
        /\ config' = [config EXCEPT ![tasks[t].guild].enabled = FALSE]
        /\ tasks' = IF f.settings.logging_enabled
                    THEN Goto(t, "disable_log", f)
                    ELSE Goto(t, "pacing", Pace(f, "forbidden"))
        /\ UNCHANGED <<_queues, _workers, _dropped_count, _failure_count,
                       _forbidden_warned_at, heap, inflight, logging, now, arrivals,
                       unloaded, quota, enqueued, handed, droppedIds, faulted, sent,
                       forbidden>>

\* _handle_forbidden resumed from the auto-disabled _maybe_log.
disable_log_done(t) ==
    /\ Runs(t, "disable_log")
    /\ sent' = _maybe_log(tasks[t].guild, "disabled", tasks[t].f.msg.id)
    /\ tasks' = Goto(t, "pacing", Pace(tasks[t].f, "forbidden"))
    /\ UNCHANGED <<config, _queues, _workers, _dropped_count, _failure_count,
                   _forbidden_warned_at, heap, inflight, logging, now, arrivals,
                   unloaded, quota, enqueued, handed, droppedIds, faulted, forbidden>>

\* The pacing sleep ends and _process_message returns.
pacing_done(t) ==
    /\ Runs(t, "pacing")
    /\ Returned(t)
    /\ UNCHANGED <<config, _queues, _workers, _dropped_count, _failure_count,
                   _forbidden_warned_at, inflight, logging, now, arrivals, unloaded,
                   quota, enqueued, handed, droppedIds, faulted, sent, forbidden>>

\* Faulty variant of on_exception: the exception leaves the loop and ends the
\* task.
on_exception_raise(t) == Goto(t, "done", IdleLocals)

\* `except Exception:` (lines 119-121): log.exception, then
\* `await asyncio.sleep(1.0)`.
on_exception(t) ==
    Goto(t, "crash_sleep", [IdleLocals EXCEPT !.sleep_ms = CRASH_SLEEP_MS])

\* An await on a collaborator raises something that is neither CancelledError
\* nor a discord.HTTPException: `finally: queue.task_done()`, then
\* `except Exception` logs and sleeps one second.
process_fault(t) ==
    /\ t \in TaskIds
    /\ tasks[t].pc \in ExternalCallPcs
    /\ ~tasks[t].cancel
    /\ heap' = task_done(heap, tasks[t].queue)
    /\ faulted' = faulted \cup {tasks[t].f.msg.id}
    /\ tasks' = on_exception(t)
    /\ UNCHANGED <<config, _queues, _workers, _dropped_count, _failure_count,
                   _forbidden_warned_at, inflight, logging, now, arrivals, unloaded,
                   quota, enqueued, handed, droppedIds, sent, forbidden>>

\* The one-second sleep ends and the loop goes round.
crash_sleep_done(t) ==
    /\ Runs(t, "crash_sleep")
    /\ tasks' = Goto(t, "get", IdleLocals)
    /\ UNCHANGED <<config, _queues, _workers, _dropped_count, _failure_count,
                   _forbidden_warned_at, heap, inflight, logging, now, arrivals,
                   unloaded, quota, enqueued, handed, droppedIds, faulted, sent,
                   forbidden>>

\* A queue that neither self._queues nor a running worker refers to any more is
\* garbage: nothing can read it, and it is kept as an empty queue.
collect(h, q) ==
    IF \E g \in Guilds : _queues[g] = q THEN h ELSE [h EXCEPT ![q] = NewQueue]

\* CancelledError is raised at the await the task is suspended in: inside
\* _process_message the `finally` runs, `except asyncio.CancelledError: raise`
\* ends the loop; in the sleep of the `except Exception` branch it leaves the
\* handler; the task is done and its frame, with the queue it held, is freed.
worker_cancelled(t) ==
    /\ t \in TaskIds
    /\ tasks[t].cancel
    /\ tasks[t].pc # "done"
    /\ heap' = collect(IF tasks[t].pc \in ProcessingPcs
                       THEN task_done(heap, tasks[t].queue) ELSE heap,
                       tasks[t].queue)
    /\ tasks' = Goto(t, "done", IdleLocals)
    /\ UNCHANGED <<config, _queues, _workers, _dropped_count, _failure_count,
                   _forbidden_warned_at, inflight, logging, now, arrivals, unloaded,
                   quota, enqueued, handed, droppedIds, faulted, sent, forbidden>>

----------------------------------------------------------------------------
(* The environment: the settings store written from outside the core (the  *)
(* commands' `.set(...)` calls, one field per write), and the clock.       *)

\* The values a field of the store can be given.
FieldValues(field) ==
    CASE field = "enabled"                   -> BOOLEAN
      [] field = "channel_id"                -> Channels \cup {None}
      [] field = "emoji_raw"                 -> RawEmojis \cup {None}
      [] field = "ignore_bots"               -> BOOLEAN
      [] field = "ignore_webhooks"           -> BOOLEAN
      [] field = "auto_disable_on_forbidden" -> BOOLEAN
      [] field = "logging_enabled"           -> BOOLEAN
      [] OTHER                               -> LogChannels \cup {None}

Fields ==
    {"enabled", "channel_id", "emoji_raw", "ignore_bots", "ignore_webhooks",
     "auto_disable_on_forbidden", "logging_enabled", "log_channel_id"}

\* `await self.config.guild(ctx.guild).<field>.set(value)`
store_set(guild, field, value) ==
    /\ config[guild][field] # value
    /\ config' = [config EXCEPT ![guild][field] = value]
    /\ UNCHANGED <<_queues, _workers, _dropped_count, _failure_count,
                   _forbidden_warned_at, heap, tasks, inflight, logging, now,
                   arrivals, unloaded, quota, enqueued, handed, droppedIds, faulted, sent,
                   forbidden>>

\* The spans of time that pass between two steps.
Spans == {30, 31}

\* time.monotonic() advances.
Tick(span) ==
    /\ now + span <= quota.clock
    /\ now' = now + span
    /\ UNCHANGED <<config, _queues, _workers, _dropped_count, _failure_count,
                   _forbidden_warned_at, heap, tasks, inflight, logging, arrivals,
                   unloaded, quota, enqueued, handed, droppedIds, faulted, sent,
                   forbidden>>

----------------------------------------------------------------------------
(* Specifications. *)

\* The guild whose traffic the specifications drive.
Active == {"g1"}

\* A store in which the guild is set up: enabled, with a channel and an emoji.
Configured(emoji_raw, max_retry, per_item_delay_ms, auto_disable, logs) ==
    [DefaultSettings EXCEPT
        !.enabled = TRUE, !.channel_id = "c1", !.emoji_raw = emoji_raw,
        !.ignore_bots = TRUE,
        !.max_retry = max_retry, !.per_item_delay_ms = per_item_delay_ms,
        !.auto_disable_on_forbidden = auto_disable,
        !.logging_enabled = logs, !.log_channel_id = IF logs THEN "log" ELSE None]

\* __init__ (lines 45-49): empty maps and zero counters; the histories empty.
InitCog ==
    /\ _queues = [g \in Guilds |-> NoQueue]
    /\ _workers = [g \in Guilds |-> NoTask]
    /\ _dropped_count = [g \in Guilds |-> 0]
    /\ _failure_count = [g \in Guilds |-> 0]
    /\ _forbidden_warned_at = [k \in Guilds \X Channels |-> Unset]
    /\ heap = <<>>
    /\ tasks = <<>>
    /\ inflight = {}
    /\ logging = {}
    /\ arrivals = 0
    /\ unloaded = FALSE
    /\ enqueued = [g \in Guilds |-> <<>>]
    /\ handed = [g \in Guilds |-> <<>>]
    /\ droppedIds = {}
    /\ faulted = {}
    /\ sent = [g \in Guilds |-> <<>>]
    /\ forbidden = [g \in Guilds |-> <<>>]

\* The worker's steps outside the backoff sleep and _handle_forbidden's awaits
\* and without unexpected exceptions, with the results add_reaction is let to
\* give.
Work(outcomes, statuses) ==
    \/ \E t \in TaskIds : worker_get(t)
    \/ \E t \in TaskIds : process_settings(t)
    \/ \E t \in TaskIds, outcome \in outcomes, status \in statuses :
          add_reaction_done(t, outcome, status)
    \/ \E t \in TaskIds : pacing_done(t)

\* The end of a backoff sleep between two attempts.
Retry == \E t \in TaskIds : backoff_done(t)

\* An unexpected exception in the worker, and the loop's recovery from it.
Crash ==
    \/ \E t \in TaskIds : process_fault(t)
    \/ \E t \in TaskIds : crash_sleep_done(t)

\* _handle_forbidden's awaits.
Handler ==
    \/ \E t \in TaskIds : warn_log_done(t)
    \/ \E t \in TaskIds : disable_set_done(t)
    \/ \E t \in TaskIds : disable_log_done(t)

\* on_message for the given shapes of message.
Dispatch(shapes) ==
    \/ \E g \in Active, shape \in shapes : on_message_begin(g, shape)
    \/ \E message \in inflight : on_message(message)

\* The store's fields written from outside, one field per write.
Edit(fields) ==
    \E g \in Active, field \in fields :
        \E value \in FieldValues(field) : store_set(g, field, value)

\* One field of the store written from outside with one of the given values.
Rewrite(field, values) ==
    \E g \in Active, value \in values : store_set(g, field, value)

(* Spec: the queue and the worker's life. One guild with logging on; messages  *)
(* arrive and overflow the queue; add_reaction succeeds or is rate limited;    *)
(* any await on a collaborator can raise; the cog is unloaded at any time.     *)
Init ==
    /\ InitCog
    /\ now = 100
    /\ quota = [arrivals |-> MaxArrivals, clock |-> 100]
    /\ config = [g \in Guilds |->
                    IF g \in Active THEN Configured("tick", 1, 350, FALSE, TRUE)
                    ELSE DefaultSettings]

Next ==
    \/ Dispatch({"plain", "reacted"})
    \/ \E message \in logging : on_message_logged(message)
    \/ Work({"ok", "HTTPException"}, {429})
    \/ Retry
    \/ Crash
    \/ \E t \in TaskIds : worker_cancelled(t)
    \/ cog_unload

Spec == Init /\ [][Next]_vars

(* SpecFifo: the order of processing. No unload; every result of add_reaction; *)
(* `enabled` is switched at any time.                                          *)
InitFifo ==
    /\ InitCog
    /\ now = 100
    /\ quota = [arrivals |-> FifoArrivals, clock |-> 100]
    /\ config = [g \in Guilds |->
                    IF g \in Active THEN Configured("tick", 1, 350, FALSE, FALSE)
                    ELSE DefaultSettings]

NextFifo ==
    \/ Dispatch({"plain", "reacted", "bot"})
    \/ Work(Outcomes, {400, 429})
    \/ Retry
    \/ Crash
    \/ Edit({"enabled"})

SpecFifo == InitFifo /\ [][NextFifo]_vars

(* SpecRetry: the idempotency check and the retry loop. The store starts with *)
(* any emoji and any retry count; messages come with and without reactions;   *)
(* add_reaction gives any result with any status. No unload, no edits.        *)
InitRetry ==
    /\ InitCog
    /\ now = 100
    /\ quota = [arrivals |-> RetryArrivals, clock |-> 100]
    /\ \E emoji_raw \in RawEmojis, max_retry \in {-1, 0, 1, 2} :
          config = [g \in Guilds |->
                       IF g \in Active
                       THEN Configured(emoji_raw, max_retry, 350, FALSE, FALSE)
                       ELSE DefaultSettings]

NextRetry ==
    \/ Dispatch({"plain", "reacted", "custom"})
    \/ Work(Outcomes, Statuses)
    \/ Retry
    \/ Crash

SpecRetry == InitRetry /\ [][NextRetry]_vars

(* SpecSettings: the store rewritten under the worker. `enabled`, the target   *)
(* channel and the emoji are rewritten at any time; add_reaction succeeds or   *)
(* is rate limited. No unload.                                                 *)
InitSettings ==
    /\ InitCog
    /\ now = 100
    /\ quota = [arrivals |-> SettingsArrivals, clock |-> 100]
    /\ config = [g \in Guilds |->
                    IF g \in Active THEN Configured("tick", 2, 350, FALSE, FALSE)
                    ELSE DefaultSettings]

NextSettings ==
    \/ Dispatch({"plain"})
    \/ Work({"ok", "HTTPException"}, {429})
    \/ Retry
    \/ Edit({"enabled", "channel_id"})
    \/ Rewrite("emoji_raw", {"tick", "<:yes:11>", None})

SpecSettings == InitSettings /\ [][NextSettings]_vars

(* SpecGuilds: two guilds side by side, both set up with auto-disable on,       *)
(* logging off and no retries. Messages arrive in either guild and overflow a   *)
(* queue; add_reaction is forbidden or rate limited; any await on a             *)
(* collaborator can raise. No unload.                                           *)
InitGuilds ==
    /\ InitCog
    /\ now = 100
    /\ quota = [arrivals |-> GuildsArrivals, clock |-> 100]
    /\ config = [g \in Guilds |-> Configured("tick", 0, 350, TRUE, FALSE)]

NextGuilds ==
    \/ \E g \in Guilds : on_message_begin(g, "plain")
    \/ \E message \in inflight : on_message(message)
    \/ Work({"Forbidden", "HTTPException"}, {429})
    \/ \E t \in TaskIds : disable_set_done(t)
    \/ Crash

SpecGuilds == InitGuilds /\ [][NextGuilds]_vars

(* SpecCounts: what is counted as a failure. The emoji is one that resolves or  *)
(* one that does not; add_reaction gives any of its results; `enabled`, the     *)
(* channel and the pacing delay are rewritten at any time. No unload.           *)
InitCounts ==
    /\ InitCog
    /\ now = 100
    /\ quota = [arrivals |-> CountsArrivals, clock |-> 100]
    /\ \E emoji_raw \in {"tick", ""} :
          config = [g \in Guilds |->
                       IF g \in Active
                       THEN Configured(emoji_raw, 1, 350, FALSE, FALSE)
                       ELSE DefaultSettings]

NextCounts ==
    \/ Dispatch({"plain", "reacted"})
    \/ Work(Outcomes, {400, 429})
    \/ Retry
    \/ Edit({"enabled", "channel_id"})
    \/ Rewrite("per_item_delay_ms", {50, 350, 3000})

SpecCounts == InitCounts /\ [][NextCounts]_vars

(* SpecDisable: after the auto-disable. One guild with auto-disable and logging *)
(* on; add_reaction succeeds, is forbidden or is rate limited; from outside     *)
(* `enabled` is only ever set back to true, so the guild is disabled only by    *)
(* _handle_forbidden. No unexpected exception, no unload.                       *)
InitDisable ==
    /\ InitCog
    /\ now = 100
    /\ quota = [arrivals |-> DisableArrivals, clock |-> 100]
    /\ config = [g \in Guilds |->
                    IF g \in Active THEN Configured("tick", 1, 350, TRUE, TRUE)
                    ELSE DefaultSettings]

NextDisable ==
    \/ Dispatch({"plain"})
    \/ Work({"ok", "Forbidden", "HTTPException"}, {429})
    \/ Retry
    \/ Handler
    \/ Rewrite("enabled", {TRUE})

SpecDisable == InitDisable /\ [][NextDisable]_vars

(* SpecLive: the worker under a fair event loop. One guild; messages arrive,    *)
(* already reacted to or not; add_reaction gives any of its results; any await  *)
(* on a collaborator can raise; `enabled` is switched at any time. No unload.   *)
(* The event loop runs every task that is ready, every sleep ends and every     *)
(* call on a collaborator returns or raises: the worker's next step is taken    *)
(* whenever it stays possible. Nothing obliges a message to arrive, a call to   *)
(* raise or a setting to be written.                                            *)
InitLive ==
    /\ InitCog
    /\ now = 100
    /\ quota = [arrivals |-> LiveArrivals, clock |-> 100]
    /\ config = [g \in Guilds |->
                    IF g \in Active THEN Configured("tick", 1, 350, FALSE, FALSE)
                    ELSE DefaultSettings]

\* The steps the event loop owes the worker.
Scheduled ==
    \/ Work(Outcomes, {429})
    \/ Retry
    \/ \E t \in TaskIds : crash_sleep_done(t)

NextLive ==
    \/ Dispatch({"plain", "reacted"})
    \/ Work(Outcomes, {429})
    \/ Retry
    \/ Crash
    \/ Edit({"enabled"})

SpecLive == InitLive /\ [][NextLive]_vars /\ WF_vars(Scheduled)

(* SpecForbidden: permission errors over time. The clock starts below or above *)
(* the cooldown and advances; add_reaction succeeds or is forbidden; the store  *)
(* starts with any auto-disable and logging setting; `enabled` is switched at   *)
(* any time. No unload.                                                         *)
InitForbidden ==
    /\ InitCog
    /\ now \in {10, 100}
    /\ quota = [arrivals |-> ForbiddenArrivals, clock |-> now + MaxElapsed]
    /\ \E auto_disable \in BOOLEAN, logs \in BOOLEAN :
          config = [g \in Guilds |->
                       IF g \in Active
                       THEN Configured("tick", 0, 350, auto_disable, logs)
                       ELSE DefaultSettings]

NextForbidden ==
    \/ Dispatch({"plain", "elsewhere"})
    \/ Work({"ok", "Forbidden"}, {429})
    \/ Handler
    \/ Crash
    \/ Edit({"enabled"})
    \/ \E span \in Spans : Tick(span)

SpecForbidden == InitForbidden /\ [][NextForbidden]_vars

----------------------------------------------------------------------------
(* Claims. *)

Range(seq) == {seq[i] : i \in 1..Len(seq)}

QueueIds == 1..Len(heap)

\* The ids of the messages a queue holds.
Queued(q) == {heap[q].items[i].id : i \in 1..Len(heap[q].items)}

\* on_message(message) is the step being taken.
Resumes(message) == message \in inflight /\ message \notin inflight'

\* The message passes the filters and its guild's queue is full.
Overflows(message) ==
    /\ qualifies(config[message.guild], message)
    /\ _queues[message.guild] # NoQueue
    /\ Len(heap[_queues[message.guild]].items) >= DEFAULT_QUEUE_MAXSIZE

C1_Bounded ==
    /\ \A q \in QueueIds : Len(heap[q].items) <= DEFAULT_QUEUE_MAXSIZE
    /\ \A g \in Guilds : Range(handed[g]) \cap droppedIds = {}
    /\ \A q \in QueueIds : Queued(q) \cap droppedIds = {}
    /\ \A message \in inflight : ENABLED on_message(message)
    /\ \A message \in logging : ENABLED on_message_logged(message)

C1_Drop ==
    \A message \in inflight :
        Resumes(message) /\ Overflows(message) =>
            /\ _dropped_count' =
                  [_dropped_count EXCEPT ![message.guild] = @ + 1]
            /\ heap' = heap
            /\ _failure_count' = _failure_count
            /\ message.id \in droppedIds'

\* C1: no queue ever holds more than DEFAULT_QUEUE_MAXSIZE messages; on_message
\* with a qualifying message and a full queue adds exactly 1 to the guild's
\* dropped counter and leaves every queue and the failed counter as they were;
\* a dropped message is never queued and never handed to _process_message; a
\* suspended on_message can always resume, whatever the queue holds.
C1_QueueBoundedOverflowDropped == []C1_Bounded /\ [][C1_Drop]_vars

\* A message was dropped at a queue that is full.
C1_Witness ==
    /\ _dropped_count["g1"] = 1
    /\ droppedIds # {}
    /\ _queues["g1"] # NoQueue
    /\ Len(heap[_queues["g1"]].items) = DEFAULT_QUEUE_MAXSIZE

\* C2: in each guild the ids handed to _process_message, in the order of the
\* calls, are the ids put into the queue, in the order of the puts, up to the
\* number handed so far.
C2_ProcessedInEnqueueOrder ==
    \A g \in Guilds :
        /\ Len(handed[g]) <= Len(enqueued[g])
        /\ \A i \in 1..Len(handed[g]) : handed[g][i] = enqueued[g][i].id

\* Three messages were processed, enqueued in another order than they arrived
\* in, one of them raised an unexpected exception, one failed, and the guild was
\* disabled meanwhile.
C2_Witness ==
    /\ Len(handed["g1"]) = 3
    /\ handed["g1"][1] = 2
    /\ faulted # {}
    /\ _failure_count["g1"] > 0
    /\ ~config["g1"].enabled

\* The task leaves `pc` by the code's own step there (no unexpected exception,
\* no cancellation).
Leaves(t, pc) ==
    /\ tasks[t].pc = pc
    /\ tasks'[t].pc \notin {pc, "crash_sleep", "done"}

\* The store lets the item through step 1 of _process_message.
StillWanted(settings, message) ==
    /\ settings.enabled
    /\ settings.channel_id # None
    /\ settings.emoji_raw # None
    /\ message.channel = settings.channel_id

\* The message carries a reaction whose key is the key of the emoji configured.
AlreadyReacted(message, emoji_raw) ==
    \E reaction \in Range(message.reactions) :
        _emoji_key(reaction) = _emoji_key(_to_runtime_emoji(emoji_raw))

\* min(2000, max(100, per_item_delay_ms)), said over again.
Clamped(ms) == IF ms < 100 THEN 100 ELSE IF ms > 2000 THEN 2000 ELSE ms

C3_Skip ==
    \A t \in TaskIds :
        LET settings == config[tasks[t].guild]
            message  == tasks[t].f.msg
        IN  /\ (/\ Leaves(t, "settings")
                /\ StillWanted(settings, message)
                /\ _to_runtime_emoji(settings.emoji_raw) # NoEmoji
                /\ AlreadyReacted(message, settings.emoji_raw))
               => /\ tasks'[t].pc = "pacing"
                  /\ tasks'[t].f.calls = 0
                  /\ tasks'[t].f.sleep_ms = Clamped(settings.per_item_delay_ms)
                  /\ _failure_count' = _failure_count
                  /\ handed' = handed
            /\ (/\ Leaves(t, "pacing")
                /\ AlreadyReacted(message, tasks[t].f.settings.emoji_raw))
               => /\ tasks[t].f.calls = 0
                  /\ tasks'[t].pc = "get"
                  /\ _failure_count' = _failure_count

\* C3: when the message being processed already carries a reaction with the
\* key of the configured emoji, the step that reads the settings goes straight
\* to the pacing sleep of clamp(per_item_delay_ms) without calling add_reaction
\* and without touching the failed counter or taking another item, and the
\* item ends after that sleep with add_reaction never called.
C3_AlreadyReactedSkipsButPaces == [][C3_Skip]_vars

\* A message whose reaction is the configured custom emoji under another name
\* is in its pacing sleep, add_reaction not called.
C3_Witness ==
    \E t \in TaskIds :
        /\ tasks[t].pc = "pacing"
        /\ tasks[t].f.result = "skip"
        /\ tasks[t].f.calls = 0
        /\ tasks[t].f.emoji = Emoji("yes", FALSE, 11)
        /\ tasks[t].f.msg.reactions = <<PartialEmoji("renamed", FALSE, 11)>>
        /\ tasks[t].f.sleep_ms = 350

\* C4: add_reaction is never called more than max(0, max_retry) + 1 times for
\* one item, and an item abandoned after nothing but transient errors had it
\* called exactly max(0, max_retry) + 1 times.
C4_RetryBound ==
    \A t \in TaskIds :
        LET f == tasks[t].f
        IN  /\ tasks[t].pc \in ProcessingPcs \ {"settings"} =>
                f.calls <= Max(0, f.settings.max_retry) + 1
            /\ tasks[t].pc = "pacing" /\ f.result = "exhausted" =>
                f.calls = Max(0, f.settings.max_retry) + 1

\* max_retry = 2, three transient errors, the item abandoned.
C4_Witness ==
    \E t \in TaskIds :
        /\ tasks[t].pc = "pacing"
        /\ tasks[t].f.result = "exhausted"
        /\ tasks[t].f.settings.max_retry = 2
        /\ tasks[t].f.calls = 3

\* C5: when the first item of a guild has exhausted its retries on transient
\* errors, the guild's failed counter stands at 1.
C5_FailedOncePerItem ==
    \A t \in TaskIds :
        (/\ tasks[t].pc = "pacing"
         /\ tasks[t].f.result = "exhausted"
         /\ Len(handed[tasks[t].guild]) = 1)
        => _failure_count[tasks[t].guild] = 1

\* The missing-permissions notifications sent for message `id`.
Warnings(g, id) ==
    {k \in 1..Len(sent[g]) : sent[g][k].kind = "missing" /\ sent[g][k].id = id}

\* _handle_forbidden's cooldown part is over for message `id`.
WarnedOrNot(id) ==
    /\ id \notin faulted
    /\ \A t \in TaskIds :
          tasks[t].f.msg.id = id => tasks[t].pc \notin {"add_reaction", "warn_log"}

\* Logging is on and the log channel resolves.
Notifies(g) ==
    /\ config[g].logging_enabled
    /\ config[g].log_channel_id # None
    /\ get_channel_ok(config[g].log_channel_id)

\* C6: per guild and channel, of the permission-denied events less than 60
\* seconds apart at most one is followed by a missing-permissions notification,
\* and none by two; with logging on and the log channel resolvable, an event 61
\* seconds or more after the last recorded warning is followed by one.
C6_WarningCooldown ==
    \A g \in Guilds :
        LET events == forbidden[g]
        IN  /\ \A i \in 1..Len(events) :
                  Cardinality(Warnings(g, events[i].id)) <= 1
            /\ \A i, j \in 1..Len(events) :
                  (/\ i < j
                   /\ events[i].channel = events[j].channel
                   /\ events[j].at - events[i].at < 60)
                  => ~(/\ Warnings(g, events[i].id) # {}
                       /\ Warnings(g, events[j].id) # {})
            /\ \A j \in 1..Len(events) :
                  (/\ events[j].last # Unset
                   /\ events[j].at - events[j].last >= 61
                   /\ Notifies(g)
                   /\ WarnedOrNot(events[j].id))
                  => Warnings(g, events[j].id) # {}

\* A warning was sent, and 61 seconds later a second permission error brought
\* a second one.
C6_Witness ==
    LET events == forbidden["g1"]
    IN  /\ Len(events) = 2
        /\ events[2].channel = events[1].channel
        /\ events[2].at - events[1].at = 61
        /\ Warnings("g1", events[1].id) # {}
        /\ Warnings("g1", events[2].id) # {}

\* The permission-denied event of message `id`.
EventOf(g, id) ==
    CHOOSE e \in Range(forbidden[g]) : e.id = id

C7_Written ==
    \A t \in TaskIds :
        (tasks[t].pc = "pacing" /\ tasks[t].f.result = "forbidden")
        => tasks[t].f.writes =
               IF tasks[t].f.settings.auto_disable_on_forbidden THEN 1 ELSE 0

C7_Write ==
    \A t \in TaskIds :
        (tasks'[t] # tasks[t] /\ config' # config)
        => /\ tasks[t].pc = "disable_set"
           /\ tasks[t].f.settings.auto_disable_on_forbidden
           /\ tasks[t].f.writes = 0
           /\ config' = [config EXCEPT ![tasks[t].guild].enabled = FALSE]

\* C7: an item whose add_reaction was forbidden and whose handler has returned
\* has written enabled = false to the store once when its settings snapshot had
\* auto_disable_on_forbidden, whether or not the cooldown let the warning
\* through and whether or not logging was on, and has not written otherwise;
\* the worker writes nothing else to the store.
C7_AutoDisableOnce == []C7_Written /\ [][C7_Write]_vars

\* The guild was disabled by a permission error whose warning the cooldown
\* held back.
C7_Witness ==
    \E t \in TaskIds :
        /\ tasks[t].pc = "pacing"
        /\ tasks[t].f.result = "forbidden"
        /\ tasks[t].f.writes = 1
        /\ ~EventOf(tasks[t].guild, tasks[t].f.msg.id).due
        /\ ~config[tasks[t].guild].enabled

\* The record of the put of message `id`.
EnqueuedAs(g, id) ==
    CHOOSE e \in Range(enqueued[g]) : e.id = id

\* The store no longer lets the item through: the read ends the item with
\* add_reaction not called and nothing counted or sent.
C8_Discard ==
    \A t \in TaskIds :
        (/\ Leaves(t, "settings")
         /\ ~StillWanted(config[tasks[t].guild], tasks[t].f.msg))
        => /\ tasks'[t].pc = "get"
           /\ tasks[t].f.calls = 0
           /\ _failure_count' = _failure_count
           /\ sent' = sent

\* The item runs on the settings read at its start, whatever the store says
\* later.
C8_Snapshot ==
    \A t \in TaskIds :
        LET f == tasks[t].f
        IN  /\ (Leaves(t, "settings") /\ tasks'[t].pc # "get")
               => tasks'[t].f.settings = config[tasks[t].guild]
            /\ (/\ tasks[t].pc \in ProcessingPcs \ {"settings"}
                /\ tasks'[t].pc \in ProcessingPcs)
               => /\ tasks'[t].f.settings = f.settings
                  /\ tasks'[t].f.msg = f.msg
            /\ (Leaves(t, "add_reaction") /\ tasks'[t].pc = "backoff")
               => f.attempt < Max(0, f.settings.max_retry)
            /\ Leaves(t, "backoff")
               => /\ tasks'[t].pc = "add_reaction"
                  /\ tasks'[t].f.calls = f.calls + 1
            /\ (tasks[t].pc # "pacing" /\ tasks'[t].pc = "pacing")
               => tasks'[t].f.sleep_ms = Clamped(f.settings.per_item_delay_ms)
            /\ Leaves(t, "pacing") => tasks'[t].pc = "get"

\* A sleeping item wakes up whatever the store says.
C8_Proceeds ==
    \A t \in TaskIds :
        /\ tasks[t].pc = "backoff" /\ ~tasks[t].cancel => ENABLED backoff_done(t)
        /\ tasks[t].pc = "pacing" /\ ~tasks[t].cancel => ENABLED pacing_done(t)

\* C8 as amended: the settings are read once per item, at its start; when that
\* read finds the guild disabled, the channel unset or another channel than the
\* message's, or the emoji unset, add_reaction is never called for the item;
\* after the read the item's retries and its pacing sleep go by the settings
\* read, whatever is written to the store meanwhile.
C8_SettingsReadOncePerItem ==
    []C8_Proceeds /\ [][C8_Discard /\ C8_Snapshot]_vars

\* The guild was disabled and its channel unset while the second item was
\* retrying; the item made its three calls and is in its pacing sleep.
C8_Witness ==
    \E t \in TaskIds :
        /\ tasks[t].pc = "pacing"
        /\ tasks[t].f.result = "exhausted"
        /\ tasks[t].f.calls = 3
        /\ tasks[t].f.settings.enabled
        /\ ~config[tasks[t].guild].enabled
        /\ config[tasks[t].guild].channel_id = None
        /\ Len(handed[tasks[t].guild]) = 2

C8_ChangedEmojiDiscards ==
    \A t \in TaskIds :
        (/\ Leaves(t, "settings")
         /\ config[tasks[t].guild].emoji_raw
               # EnqueuedAs(tasks[t].guild, tasks[t].f.msg.id).emoji_raw)
        => tasks'[t].pc = "get"

\* C8 as stated: as above, and add_reaction is never called either for an item
\* whose guild's emoji was changed between its put and the settings read.
C8_AsStated ==
    []C8_Proceeds /\ [][C8_Discard /\ C8_Snapshot /\ C8_ChangedEmojiDiscards]_vars

C9_Alive ==
    \A t \in TaskIds :
        /\ tasks[t].pc = "done" => tasks[t].cancel
        /\ tasks[t].pc = "crash_sleep" =>
              /\ tasks[t].f.sleep_ms = 1000
              /\ ~tasks[t].cancel => ENABLED crash_sleep_done(t)
        /\ (/\ tasks[t].pc = "get"
            /\ ~tasks[t].cancel
            /\ heap[tasks[t].queue].items # <<>>) => ENABLED worker_get(t)

C9_Recover ==
    \A t \in TaskIds :
        LET q == tasks[t].queue
        IN  /\ (tasks[t].pc # "done" /\ tasks'[t].pc = "done") => tasks[t].cancel
            /\ (tasks[t].pc \in ProcessingPcs /\ ~tasks[t].cancel /\ tasks'[t] # tasks[t])
               => tasks'[t].pc \in ProcessingPcs \cup {"get", "crash_sleep"}
            /\ (tasks[t].pc # "crash_sleep" /\ tasks'[t].pc = "crash_sleep")
               => /\ tasks[t].pc \in ProcessingPcs
                  /\ tasks[t].f.msg.id \in faulted'
                  /\ heap'[q].unfinished = heap[q].unfinished - 1
                  /\ heap'[q].items = heap[q].items
            /\ Leaves(t, "crash_sleep") => tasks'[t].pc = "get"

\* C9: an unexpected exception while an item is processed leaves the worker
\* running: the item is marked done on the queue once, the worker sleeps 1000
\* ms, goes back to queue.get() and takes the next item when there is one; a
\* worker task is done only after cancel() was called on it.
C9_WorkerSurvivesFaults == []C9_Alive /\ [][C9_Recover]_vars

\* The only worker of the guild processed an item that raised, and then the
\* item after it.
C9_Witness ==
    /\ Len(tasks) = 1
    /\ ~unloaded
    /\ \E i \in 1..Len(handed["g1"]) :
          /\ handed["g1"][i] \in faulted
          /\ i < Len(handed["g1"])
          /\ handed["g1"][i + 1] \notin faulted
    /\ tasks[1].pc = "pacing"
    /\ tasks[1].f.result = "ok"

\* The tasks of a guild that are running: not done, and not cancelled.
Draining(g) ==
    {t \in TaskIds : tasks[t].guild = g /\ ~done(tasks, t) /\ ~tasks[t].cancel}

C10_OneWorker ==
    \A g \in Guilds :
        /\ Cardinality(Draining(g)) <= 1
        /\ \A t \in Draining(g) :
              /\ _workers[g] = t
              /\ _queues[g] = tasks[t].queue
        /\ _workers[g] # NoTask =>
              /\ _workers[g] \in Draining(g)
              /\ _queues[g] # NoQueue

C10_Idempotent ==
    \A message \in inflight :
        (/\ Resumes(message)
         /\ _workers[message.guild] # NoTask
         /\ ~done(tasks, _workers[message.guild]))
        => /\ tasks' = tasks
           /\ _workers' = _workers

C11_Pending ==
    \A t \in TaskIds :
        (tasks[t].cancel /\ ~done(tasks, t)) => ENABLED worker_cancelled(t)

C11_Delivered ==
    \A t \in TaskIds :
        /\ (tasks[t].cancel /\ tasks'[t] # tasks[t])
           => /\ ~done(tasks, t)
              /\ done(tasks', t)
              /\ handed' = handed
              /\ faulted' = faulted
              /\ \A q \in QueueIds : Len(heap'[q].items) <= Len(heap[q].items)
        /\ done(tasks, t) => tasks'[t] = tasks[t]

\* C11: a worker on which cancel() was called can always take its next step,
\* wherever it is suspended, and that step, the only one it ever takes, ends
\* the task: it does not go to the one-second sleep of the recovery branch,
\* takes no item from a queue, and calls add_reaction no more; a task that is
\* done stays as it is.
C11_CancelEndsWorker == []C11_Pending /\ [][C11_Delivered]_vars

\* The worker was cancelled after an item of its had raised and another had
\* been taken, and it is done.
C11_Witness ==
    /\ unloaded
    /\ Len(tasks) = 1
    /\ done(tasks, 1)
    /\ tasks[1].cancel
    /\ faulted # {}
    /\ Len(handed["g1"]) = 2

\* C12: in each guild the ids handed to _process_message rise: a message's id
\* is the number of its on_message call in the order the calls began, so the
\* messages are processed in the order they arrived in.
C12_ProcessedInArrivalOrder ==
    \A g \in Guilds :
        \A i, j \in 1..Len(handed[g]) :
            i < j => handed[g][i] < handed[g][j]

\* The step is taken for guild g: an on_message call for one of its messages
\* resumes, or one of its worker tasks moves.
StepFor(g) ==
    \/ \E message \in inflight : message.guild = g /\ Resumes(message)
    \/ \E message \in logging : message.guild = g /\ message \notin logging'
    \/ \E t \in TaskIds : tasks[t].guild = g /\ tasks'[t] # tasks[t]

\* The queues of guild g: the one self._queues holds and those its tasks read.
QueuesOf(g) ==
    {q \in QueueIds : _queues[g] = q \/ \E t \in TaskIds :
                                           tasks[t].guild = g /\ tasks[t].queue = q}

\* The step leaves everything of guild g as it was.
Untouched(g) ==
    /\ _queues'[g] = _queues[g]
    /\ _workers'[g] = _workers[g]
    /\ _dropped_count'[g] = _dropped_count[g]
    /\ _failure_count'[g] = _failure_count[g]
    /\ \A c \in Channels :
          _forbidden_warned_at'[<<g, c>>] = _forbidden_warned_at[<<g, c>>]
    /\ config'[g] = config[g]
    /\ \A q \in QueuesOf(g) : heap'[q] = heap[q]
    /\ \A t \in TaskIds : tasks[t].guild = g => tasks'[t] = tasks[t]
    /\ \A t \in DOMAIN tasks' : t \notin TaskIds => tasks'[t].guild # g

C13_Frame ==
    \A a, b \in Guilds : (a # b /\ StepFor(a)) => Untouched(b)

C14_BackoffSchedule ==
    \A t \in TaskIds :
        tasks[t].pc = "backoff" =>
            tasks[t].f.sleep_ms = 1000 + 2000 * (tasks[t].f.attempt - 1)

\* The last-warned time of the event's key once the event was handled: what
\* the next event of the key found, or what the map holds now.
LastWarnedAfter(g, j) ==
    LET events == forbidden[g]
        later  == {k \in (j + 1)..Len(events) : events[k].channel = events[j].channel}
    IN  IF later = {}
        THEN _forbidden_warned_at[<<g, events[j].channel>>]
        ELSE events[CHOOSE k \in later : \A l \in later : k <= l].last

\* The handler warned at event j: it recorded the event's time and, where
\* logging is on and the handler is past its log call, sent one notification.
Warned(g, j) ==
    LET e == forbidden[g][j]
    IN  /\ LastWarnedAfter(g, j) = e.at
        /\ Cardinality(Warnings(g, e.id)) <= 1
        /\ (Notifies(g) /\ WarnedOrNot(e.id)) => Warnings(g, e.id) # {}

\* The handler kept quiet at event j: last-warned as it was, nothing sent.
Quiet(g, j) ==
    LET e == forbidden[g][j]
    IN  /\ LastWarnedAfter(g, j) = e.last
        /\ Warnings(g, e.id) = {}

\* C15: for a key with a recorded last warning, the handler records the time
\* and sends the missing-permissions notification only when strictly more than
\* 60 seconds have passed since that warning, and leaves the record as it is
\* and sends nothing at 60 seconds or less.
C15_CooldownMoreThan60 ==
    \A g \in Guilds :
        \A j \in 1..Len(forbidden[g]) :
            LET e == forbidden[g][j]
            IN  e.last # Unset =>
                    IF e.at - e.last > 60 THEN Warned(g, j) ELSE Quiet(g, j)

\* Where _handle_forbidden can be suspended.
HandlerPcs == {"warn_log", "disable_set", "disable_log"}

C16_Over ==
    \A t \in TaskIds :
        LET f == tasks[t].f
        IN  /\ f.handled <= 1
            /\ f.handled = 1 =>
                  /\ tasks[t].pc \in HandlerPcs \cup {"pacing"}
                  /\ tasks[t].pc = "pacing" =>
                        /\ f.result = "forbidden"
                        /\ f.sleep_ms = Clamped(f.settings.per_item_delay_ms)

C16_Result ==
    \A t \in TaskIds :
        LET g == tasks[t].guild
            f == tasks[t].f
        IN  /\ (tasks'[t] # tasks[t] /\ Len(forbidden'[g]) # Len(forbidden[g]))
               => /\ tasks[t].pc = "add_reaction"
                  /\ Len(forbidden'[g]) = Len(forbidden[g]) + 1
                  /\ _failure_count'[g] = _failure_count[g] + 1
                  /\ tasks'[t].f.handled = 1
                  /\ tasks'[t].f.calls = f.calls
                  /\ tasks'[t].pc \in HandlerPcs \cup {"pacing"}
            /\ (f.handled = 1 /\ tasks'[t] # tasks[t] /\ tasks'[t].pc \in ProcessingPcs)
               => /\ tasks'[t].f.calls = f.calls
                  /\ tasks'[t].f.handled = 1
                  /\ _failure_count' = _failure_count
            /\ Leaves(t, "pacing") => tasks'[t].pc = "get"

\* C16: discord.Forbidden from any attempt ends the item: that result adds
\* exactly 1 to the failed counter, _handle_forbidden is entered once,
\* add_reaction is not called again for the item and nothing more is counted,
\* and the item ends with the pacing sleep of clamp(per_item_delay_ms).
C16_ForbiddenIsTerminal == []C16_Over /\ [][C16_Result]_vars

\* With max_retry = 2, the third attempt, after two rate-limited ones, was
\* forbidden and the item is in its pacing sleep.
C16_Witness ==
    \E t \in TaskIds :
        /\ tasks[t].pc = "pacing"
        /\ tasks[t].f.result = "forbidden"
        /\ tasks[t].f.calls = 3
        /\ tasks[t].f.fails = 3
        /\ tasks[t].f.handled = 1
        /\ Len(forbidden[tasks[t].guild]) = 1

\* The step is one of the three places that count a failure, taken by task t.
CountsFailure(t) ==
    LET g == tasks[t].guild
        f == tasks[t].f
    IN  \/ /\ tasks[t].pc = "settings"
           /\ StillWanted(config[g], f.msg)
           /\ _to_runtime_emoji(config[g].emoji_raw) = NoEmoji
           /\ tasks'[t].pc = "get"
        \/ /\ tasks[t].pc = "add_reaction"
           /\ Len(forbidden'[g]) = Len(forbidden[g]) + 1
        \/ /\ tasks[t].pc = "add_reaction"
           /\ \/ tasks'[t].pc = "backoff"
              \/ tasks'[t].pc = "pacing" /\ tasks'[t].f.result \in {"http", "exhausted"}

C17_Counted ==
    /\ \A g \in Guilds :
          _failure_count'[g] # _failure_count[g] =>
              /\ _failure_count'[g] = _failure_count[g] + 1
              /\ \E t \in TaskIds : tasks[t].guild = g /\ CountsFailure(t)
    /\ \A t \in TaskIds :
          LET f == tasks[t].f
          IN  /\ (tasks[t].pc = "add_reaction" /\ tasks'[t].f.result = "notfound")
                 => /\ tasks'[t].pc = "pacing"
                    /\ tasks'[t].f.calls = f.calls
                    /\ tasks'[t].f.handled = 0
                    /\ forbidden' = forbidden
                    /\ _failure_count' = _failure_count
                    /\ _dropped_count' = _dropped_count
              /\ (Leaves(t, "pacing") /\ f.result = "notfound")
                 => /\ tasks'[t].pc = "get"
                    /\ f.handled = 0
                    /\ _failure_count' = _failure_count
              /\ (Leaves(t, "settings") /\ ~StillWanted(config[tasks[t].guild], f.msg))
                 => /\ tasks'[t].pc = "get"
                    /\ _failure_count' = _failure_count
                    /\ _dropped_count' = _dropped_count

\* C17: the failed counter changes only by 1 and only where the emoji does not
\* resolve, where add_reaction is forbidden, or where it raises another
\* HTTPException; discord.NotFound ends the retry loop at once, with no further
\* call, no _handle_forbidden, and the failed and dropped counters as they
\* were; an item discarded after the settings read changes neither counter.
C17_FailedCountedOnThreePaths == [][C17_Counted]_vars

\* The first item was discarded because the guild was disabled, the second
\* found its message gone on the retry after one rate-limited attempt: one
\* failure counted.
C17_Witness ==
    \E t \in TaskIds :
        /\ tasks[t].pc = "pacing"
        /\ tasks[t].f.result = "notfound"
        /\ tasks[t].f.calls = 2
        /\ tasks[t].f.fails = 1
        /\ Len(handed[tasks[t].guild]) = 2
        /\ _failure_count[tasks[t].guild] = 1
        /\ _dropped_count[tasks[t].guild] = 0

\* How an item that got as far as the check for an existing reaction can end.
PacedResults == {"skip", "ok", "notfound", "forbidden", "http", "exhausted"}

C18_Sleeping ==
    \A t \in TaskIds :
        tasks[t].pc = "pacing" =>
            /\ tasks[t].f.result \in PacedResults
            /\ tasks[t].f.sleep_ms = Clamped(tasks[t].f.settings.per_item_delay_ms)
            /\ tasks[t].f.sleep_ms >= 100
            /\ tasks[t].f.sleep_ms <= 2000

C18_Paced ==
    \A t \in TaskIds :
        LET g == tasks[t].guild
            f == tasks[t].f
            unwanted   == ~StillWanted(config[g], f.msg)
            unresolved == _to_runtime_emoji(config[g].emoji_raw) = NoEmoji
        IN  /\ Leaves(t, "settings") =>
                IF unwanted \/ unresolved
                THEN tasks'[t].pc = "get"
                ELSE /\ tasks'[t].pc \in {"pacing", "add_reaction"}
                     /\ tasks'[t].f.settings = config[g]
            /\ (tasks[t].pc \in ProcessingPcs \ {"settings", "pacing"}
                  /\ tasks'[t] # tasks[t])
               => /\ tasks'[t].pc \in ProcessingPcs \cup {"crash_sleep", "done"}
                  /\ tasks'[t].pc \in ProcessingPcs => tasks'[t].f.settings = f.settings
            /\ Leaves(t, "pacing") => tasks'[t].pc = "get"
            /\ (tasks[t].pc = "pacing" /\ tasks'[t] = tasks[t])
               => /\ handed'[g] = handed[g]
                  /\ Len(heap'[tasks[t].queue].items) >= Len(heap[tasks[t].queue].items)

\* C18: an item that passed the settings read and the emoji resolution ends
\* only through the pacing sleep, whatever its result, and that sleep is
\* clamp(per_item_delay_ms, 100, 2000) ms of the settings the item read, not of
\* the store as it is by then; until the sleep is over the worker takes no
\* other item; an item discarded at the settings read or whose emoji does not
\* resolve goes back to queue.get() without a sleep.
C18_PacingAfterEveryItem == []C18_Sleeping /\ [][C18_Paced]_vars

\* The item read a delay of 3000 ms and sleeps 2000 ms, while the store has
\* been set to 50 ms since and the next message waits in the queue.
C18_Witness ==
    \E t \in TaskIds :
        /\ tasks[t].pc = "pacing"
        /\ tasks[t].f.settings.per_item_delay_ms = 3000
        /\ tasks[t].f.sleep_ms = 2000
        /\ config[tasks[t].guild].per_item_delay_ms = 50
        /\ heap[tasks[t].queue].items # <<>>

\* C19: at the first permission error ever handled for a (guild, channel) key
\* the handler records the time for the key and, with logging on and the log
\* channel resolving, sends exactly one missing-permissions notification,
\* whatever the clock reads.
C19_FirstForbiddenWarns ==
    \A g \in Guilds :
        \A j \in 1..Len(forbidden[g]) :
            (\A k \in 1..(j - 1) : forbidden[g][k].channel # forbidden[g][j].channel)
            => Warned(g, j)

\* The auto-disabled notifications sent for message `id`.
DisabledNotices(g, id) ==
    {k \in 1..Len(sent[g]) : sent[g][k].kind = "disabled" /\ sent[g][k].id = id}

\* While the guild is disabled, a task of it is idle or at an item's settings
\* read, or is finishing the item whose permission error disabled the guild.
C20_Quiet ==
    \A g \in Guilds :
        /\ ~config[g].enabled =>
              \A t \in TaskIds :
                  tasks[t].guild = g =>
                      \/ tasks[t].pc \in {"get", "settings"}
                      \/ /\ tasks[t].pc \in {"disable_log", "pacing"}
                         /\ tasks[t].f.result \in {"none", "forbidden"}
                         /\ tasks[t].f.writes = 1
        /\ \A e \in Range(forbidden[g]) :
              Cardinality(DisabledNotices(g, e.id)) <= 1
        /\ \A k \in 1..Len(sent[g]) :
              sent[g][k].kind = "disabled" =>
                  \E e \in Range(forbidden[g]) : e.id = sent[g][k].id
        /\ \A t \in TaskIds :
              (tasks[t].guild = g /\ tasks[t].pc = "get" /\ ~tasks[t].cancel
                 /\ heap[tasks[t].queue].items # <<>>) => ENABLED worker_get(t)

C20_Discarded ==
    \A t \in TaskIds :
        LET g == tasks[t].guild
        IN  (~config[g].enabled /\ tasks'[t] # tasks[t])
            => /\ tasks'[t].f.calls <= tasks[t].f.calls
               /\ tasks'[t].pc # "add_reaction"
               /\ _failure_count' = _failure_count
               /\ tasks[t].pc = "settings" =>
                     /\ tasks'[t].pc = "get"
                     /\ sent' = sent

\* C20: where `enabled` is set to false by _handle_forbidden only, a disabled
\* guild has no item in the retry loop; every step its worker takes calls
\* add_reaction no more and counts no failure; an item read while the guild is
\* disabled goes back to queue.get() with no sleep and nothing sent, and the
\* worker can always take the next one; each permission error is followed by
\* at most one auto-disabled notification, and no such notification comes
\* without one.
C20_AutoDisabledStaysQuiet == []C20_Quiet /\ [][C20_Discarded]_vars

\* The first message was forbidden and disabled the guild; the two messages
\* queued behind it were taken and discarded; one failure, one auto-disabled
\* notification.
C20_Witness ==
    /\ ~config["g1"].enabled
    /\ Len(forbidden["g1"]) = 1
    /\ Len(handed["g1"]) = 3
    /\ forbidden["g1"][1].id = handed["g1"][1]
    /\ _failure_count["g1"] = 1
    /\ Cardinality(DisabledNotices("g1", handed["g1"][1])) = 1
    /\ \A t \in TaskIds : tasks[t].pc = "get"
    /\ \A q \in QueueIds : heap[q].items = <<>> /\ heap[q].unfinished = 0

\* The worker is inside _process_message for message `id`.
Processing(id) ==
    \E t \in TaskIds : tasks[t].pc \in ProcessingPcs /\ tasks[t].f.msg.id = id

\* Message `id` was put into its guild's queue.
Enqueued(id) ==
    \E g \in Guilds : \E e \in Range(enqueued[g]) : e.id = id

\* Message `id` was taken from the queue and _process_message is over for it.
Completed(id) ==
    /\ \E g \in Guilds : id \in Range(handed[g])
    /\ ~Processing(id)

\* Every queue's count of unfinished tasks is the number of messages it holds
\* plus the one being processed: one task_done() for each get().
C21_Counted ==
    \A q \in QueueIds :
        heap[q].unfinished =
            Len(heap[q].items)
            + Cardinality({t \in TaskIds : /\ tasks[t].queue = q
                                           /\ tasks[t].pc \in ProcessingPcs})

\* C21: with no unload and a fair event loop, every message put into a queue
\* is in time taken by the worker and _process_message ends for it, however it
\* ends; and queue.task_done() is called once for each message taken: the
\* queue's unfinished count is always the messages it holds plus the one in
\* process.
C21_EveryItemCompleted ==
    /\ []C21_Counted
    /\ \A id \in 1..LiveArrivals : Enqueued(id) ~> Completed(id)

\* Both messages were processed, one of them raised an unexpected exception,
\* and the queue is empty with nothing unfinished.
C21_Witness ==
    /\ Len(enqueued["g1"]) = 2
    /\ Len(handed["g1"]) = 2
    /\ faulted # {}
    /\ Cardinality(faulted) = 1
    /\ \A t \in TaskIds : tasks[t].pc = "get"
    /\ \A q \in QueueIds : heap[q].items = <<>> /\ heap[q].unfinished = 0

====
